---- MODULE Spec2Model ----
(***************************************************************************)
(* Session segmentation of a single user's event log                       *)
(* (utils/web.py, get_sessions) as a state machine.                        *)
(*                                                                         *)
(* A DataFrame is a record [index |-> labels, data |-> columns] where      *)
(* columns is a function from column names to series (sequences of equal   *)
(* length).  A missing value (NaN / NaT) is the empty tuple and a present  *)
(* value v of a nullable series is the one-element tuple <<v>>.           *)
(* Timestamps are counted in whole seconds; tdtype is the dtype of the     *)
(* caller's time column.  A call ends with pc = "returned" and a result or *)
(* with pc = "raised" and the name of the exception in error.              *)
(*                                                                         *)
(* The measures on ranked lists (utils/rankings.py) and the helpers        *)
(* chunk_list (utils/utils.py) and humanbytes (utils/dtables.py) follow,   *)
(* each with a specification of its own: call holds the function called    *)
(* and its arguments, ret the exception it raised or the value it          *)
(* returned.  A float is the fraction [num, den] it stands for.            *)
(***************************************************************************)
EXTENDS Integers, Sequences, FiniteSets

VARIABLES user, tdtype, args, result, error, pc

\* the ranked lists of a caller of utils/rankings.py, the call made on them
\* and what the call gave back
VARIABLES list1, list2, call, ret

\* the state of the process-wide generator behind np.random, the table given
\* to get_bias, the list given to chunk_list, the byte count given to
\* humanbytes, and the invocations that run side by side
VARIABLES rng, results, lst, size, procs

vars == <<user, tdtype, args, result, error, pc, list1, list2, call, ret,
          rng, results, lst, size, procs>>

\* ------------------------------------------------------------------ bounds
MaxRows == 4
MaxTime == 3
MaxDelim == 2

Times == 0..MaxTime
Delims == 0..MaxDelim

\* ----------------------------------------------------------- missing values
NaN == <<>>

notna(v) == v # NaN

val(v) == v[1]

\* ------------------------------------------------------- extended numbers
\* np.inf and -np.inf next to the integer cut points of the bins
NegInf == [sign |-> -1, n |-> 0]

PosInf == [sign |-> 1, n |-> 0]

Fin(k) == [sign |-> 0, n |-> k]

ExtLe(a, b) ==
    \/ a.sign < b.sign
    \/ a.sign = b.sign /\ a.sign # 0
    \/ a.sign = 0 /\ b.sign = 0 /\ a.n <= b.n

ExtLt(a, b) ==
    \/ a.sign < b.sign
    \/ a.sign = 0 /\ b.sign = 0 /\ a.n < b.n

\* ------------------------------------------------------------- data frames
nrows(df) == Len(df.index)

RangeIndex(n) == [i \in 1..n |-> i - 1]

\* df[name] = series
SetCol(df, name, series) ==
    [df EXCEPT !.data = [c \in (DOMAIN df.data) \cup {name} |->
                            IF c = name THEN series ELSE df.data[c]]]

\* del df[name]
DelCol(df, name) ==
    [df EXCEPT !.data = [c \in (DOMAIN df.data) \ {name} |-> df.data[c]]]

\* the rows of df taken in the order given by the positions in p
Take(df, p) ==
    [index |-> [i \in 1..Len(p) |-> df.index[p[i]]],
     data  |-> [c \in DOMAIN df.data |-> [i \in 1..Len(p) |-> df.data[c][p[i]]]]]

\* Orders of the positions in S that are ascending in series s.  The default
\* kind of sort_values is quicksort, which leaves the relative order of equal
\* keys open: every order of the ties is a possible outcome.
RECURSIVE AscendingOrders(_, _)
AscendingOrders(s, S) ==
    IF S = {} THEN {<<>>}
    ELSE LET least == {i \in S : \A j \in S : s[i] <= s[j]}
         IN  UNION {{<<i>> \o rest : rest \in AscendingOrders(s, S \ {i})} :
                    i \in least}

\* no sort at all: the frame in its input order
sort_values_unsorted(df, by) == {df}

\* df.sort_values(by): the set of frames the call can return
sort_values(df, by) ==
    {Take(df, p) : p \in AscendingOrders(df.data[by], 1..nrows(df))}

\* df.reset_index(drop=True)
reset_index_drop(df) == [df EXCEPT !.index = RangeIndex(nrows(df))]

\* df.reset_index(): the old index becomes the column 'index'
reset_index(df) ==
    [index |-> RangeIndex(nrows(df)),
     data  |-> [c \in (DOMAIN df.data) \cup {"index"} |->
                   IF c = "index" THEN df.index ELSE df.data[c]]]

\* ------------------------------------------------------------------ series
\* series.shift(k) for k = 1 and k = -1, on a nullable series
shift(s, k) ==
    [i \in 1..Len(s) |->
        IF i - k < 1 \/ i - k > Len(s) THEN NaN ELSE s[i - k]]

\* a series of plain values as a nullable series
boxed(s) == [i \in 1..Len(s) |-> <<s[i]>>]

\* diff with the operands swapped: the row before minus the row
diff_reversed(s) ==
    [i \in 1..Len(s) |-> IF i = 1 THEN NaN ELSE <<s[i - 1] - s[i]>>]

\* series.diff() on a datetime series: a timedelta series, NaT first
diff(s) ==
    [i \in 1..Len(s) |-> IF i = 1 THEN NaN ELSE <<s[i] - s[i - 1]>>]

\* .dt.total_seconds(): NaT becomes NaN, a timedelta its number of seconds
total_seconds(s) ==
    [i \in 1..Len(s) |-> IF notna(s[i]) THEN <<val(s[i])>> ELSE NaN]

get_interrow_interval(series) == total_seconds(diff(series))

\* the comparison with the next entry instead of the previous one
get_sequential_duplicates_next(series) ==
    LET next == shift(boxed(series), -1)
    IN  [i \in 1..Len(series) |-> notna(next[i]) /\ val(next[i]) = series[i]]

\* series.shift() == series, elementwise; NaN equals nothing
get_sequential_duplicates(series) ==
    LET prev == shift(boxed(series), 1)
    IN  [i \in 1..Len(series) |-> notna(prev[i]) /\ val(prev[i]) = series[i]]

\* the comparison written >= instead of >
bool_sesh_ge(time_diff, session_delimiter) ==
    [i \in 1..Len(time_diff) |->
        notna(time_diff[i]) /\ val(time_diff[i]) >= session_delimiter]

\* the comparison written ~(time_diff <= session_delimiter): NaN counts
bool_sesh_nan_true(time_diff, session_delimiter) ==
    [i \in 1..Len(time_diff) |->
        ~(notna(time_diff[i]) /\ val(time_diff[i]) <= session_delimiter)]

\* user.time_diff > session_delimiter, elementwise; NaN > x is False
bool_sesh(time_diff, session_delimiter) ==
    [i \in 1..Len(time_diff) |->
        notna(time_diff[i]) /\ val(time_diff[i]) > session_delimiter]

\* the ascending sequence of the members of the set of integers S
RECURSIVE Ascending(_)
Ascending(S) ==
    IF S = {} THEN <<>>
    ELSE LET m == CHOOSE x \in S : \A y \in S : x <= y
         IN  <<m>> \o Ascending(S \ {m})

\* [idx for idx, b in user['bool_sesh'].items() if b], between -inf and inf
session_cut_points(df) ==
    LET cuts == Ascending({df.index[i] : i \in {j \in 1..nrows(df) :
                                                 df.data["bool_sesh"][j]}})
    IN  <<NegInf>> \o [i \in 1..Len(cuts) |-> Fin(cuts[i])] \o <<PosInf>>

\* pd.cut with the default right=True: intervals (bins[k], bins[k+1]]
cut_right_closed(x, bins) ==
    [i \in 1..Len(x) |->
        (CHOOSE k \in 1..(Len(bins) - 1) :
            ExtLt(bins[k], Fin(x[i])) /\ ExtLe(Fin(x[i]), bins[k + 1])) - 1]

\* pd.cut(x, bins, right=False, labels=False): the 0-based number of the
\* interval [bins[k], bins[k+1]) that holds the value
cut(x, bins) ==
    [i \in 1..Len(x) |->
        (CHOOSE k \in 1..(Len(bins) - 1) :
            ExtLe(bins[k], Fin(x[i])) /\ ExtLt(Fin(x[i]), bins[k + 1])) - 1]

\* the change flags without the cumsum
RunKeys_no_cumsum(s) ==
    LET prev == shift(boxed(s), 1)
    IN  [i \in 1..Len(s) |-> ~(notna(prev[i]) /\ val(prev[i]) = s[i])]

\* (series != series.shift(1)).cumsum()
RunKeys(s) ==
    LET prev == shift(boxed(s), 1)
        ne   == [i \in 1..Len(s) |-> ~(notna(prev[i]) /\ val(prev[i]) = s[i])]
    IN  [i \in 1..Len(s) |-> Cardinality({j \in 1..i : ne[j]})]

\* groupby(keys).cumcount(): rows of the same group that come before
cumcount(keys) ==
    [i \in 1..Len(keys) |-> Cardinality({j \in 1..(i - 1) : keys[j] = keys[i]})]

\* cumcount without the + 1
session_idx_zero_based(session) == cumcount(RunKeys(session))

session_idx(session) ==
    LET c == cumcount(RunKeys(session))
    IN  [i \in 1..Len(session) |-> c[i] + 1]

\* the gap to the next row, but null when the next row opens a session
time_elapsed_within_session(df) ==
    [i \in 1..nrows(df) |->
        IF i < nrows(df) /\ df.data["session"][i + 1] = df.data["session"][i]
        THEN df.data["time_diff"][i + 1] ELSE NaN]

\* user['time_diff'].shift(-1): the gap to the next row, whatever its session
time_elapsed(df) == shift(df.data["time_diff"], -1)

\* ------------------------------------------------------------ get_sessions
tvar == "unixtime"

\* the body of get_sessions after the sort, on the sorted frame
Sessionize(sorted, dupe_col, session_delimiter) ==
    LET u1 == reset_index_drop(sorted)
        u2 == SetCol(u1, "time_diff", get_interrow_interval(u1.data[tvar]))
        u3 == IF dupe_col # ""
              THEN SetCol(u2, "seq_dupe",
                          get_sequential_duplicates(u2.data[dupe_col]))
              ELSE u2
        u4 == reset_index(u3)
        u5 == SetCol(u4, "bool_sesh",
                     bool_sesh(u4.data["time_diff"], session_delimiter))
        u6 == SetCol(u5, "session",
                     cut(u5.data["index"], session_cut_points(u5)))
        u7 == SetCol(u6, "session_idx", session_idx(u6.data["session"]))
        u8 == SetCol(u7, "time_elapsed", time_elapsed(u7))
    IN  DelCol(DelCol(u8, "index"), "bool_sesh")

\* ------------------------------------------------------------ state machine
\* a caller's frame of n rows: a column of row identifiers and the time column,
\* under the default RangeIndex
Frame(n, ts) ==
    [index |-> RangeIndex(n),
     data  |-> [id       |-> [i \in 1..n |-> i],
                unixtime |-> [i \in 1..n |-> ts[i]]]]

Frames == UNION {{Frame(n, ts) : ts \in [1..n -> Times]} : n \in 0..MaxRows}

\* the dtypes of the time column: datetimes, epoch numbers and, for a frame
\* without rows, the object dtype of a column that never held a value
Dtypes(df) ==
    {"datetime64[ns]", "int64"} \cup (IF nrows(df) = 0 THEN {"object"} ELSE {})

\* the .dt accessor exists on datetimelike series only
is_datetimelike(dtype) == dtype = "datetime64[ns]"

\* the columns dupe_col can name; '' is its default, meaning none
DupeCols == {"", "unixtime"}

NoArgs == [dupe_col |-> "", session_delimiter |-> 0]

NoFrame == [index |-> <<>>, data |-> <<>>]

\* how a call on the frame, once sorted, ends: the exception of the first
\* statement that fails, or the returned frame
Outcome(sorted, dtype, dupe_col, session_delimiter) ==
    IF ~is_datetimelike(dtype)
    THEN [error |-> "AttributeError", frame |-> NoFrame]
    ELSE IF "index" \in DOMAIN sorted.data
    THEN [error |-> "ValueError", frame |-> NoFrame]
    ELSE [error |-> "",
          frame |-> Sessionize(sorted, dupe_col, session_delimiter)]

NoCall == [op |-> "", digits |-> 0]

\* no float: what stands for the value of a call that gave none
NoValue == [num |-> 0, den |-> 0]

NoRet == [error |-> "", value |-> NoValue]

\* nothing of utils/rankings.py is called
RankIdle ==
    /\ list1 = <<>>
    /\ list2 = <<>>
    /\ call = NoCall
    /\ ret = NoRet

\* nothing is drawn from the generator, no helper has an argument and no
\* invocation runs beside the call
OthersIdle ==
    /\ rng = 0
    /\ results = <<>>
    /\ lst = <<>>
    /\ size = <<>>
    /\ procs = <<>>

SessionsInit ==
    /\ args = NoArgs
    /\ result = NoFrame
    /\ error = ""
    /\ pc = "ready"

Init ==
    /\ user \in Frames
    /\ tdtype \in Dtypes(user)
    /\ SessionsInit
    /\ RankIdle
    /\ OthersIdle

get_sessions ==
    /\ pc = "ready"
    /\ \E dupe_col \in DupeCols, session_delimiter \in Delims :
         \E sorted \in sort_values(user, tvar) :
            LET o == Outcome(sorted, tdtype, dupe_col, session_delimiter)
            IN  /\ args' = [dupe_col |-> dupe_col,
                            session_delimiter |-> session_delimiter]
                /\ result' = o.frame
                /\ error' = o.error
                /\ pc' = IF o.error = "" THEN "returned" ELSE "raised"
    /\ UNCHANGED <<user, tdtype, list1, list2, call, ret>>
    /\ UNCHANGED <<rng, results, lst, size, procs>>

Next == get_sessions

Spec == Init /\ [][Next]_vars

\* ------------------------------------------- frames with one more column
\* The caller's frame with one more column: the user of each record, or a
\* column that bears a name get_sessions uses itself.
MaxWideRows == 2

Entities == {1, 2}

ExtraCols == {"user_id", "index", "bool_sesh", "session"}

WideFrames ==
    UNION {{SetCol(Frame(n, ts), name, [i \in 1..n |-> xs[i]]) :
                ts \in [1..n -> Times], xs \in [1..n -> Entities],
                name \in ExtraCols} :
           n \in 0..MaxWideRows}

WideInit ==
    /\ user \in WideFrames
    /\ tdtype = "datetime64[ns]"
    /\ SessionsInit
    /\ RankIdle
    /\ OthersIdle

SpecWide == WideInit /\ [][Next]_vars

\* ------------------------------------------------------------ rankings.py
\* A float is the fraction [num, den] it stands for; the quotients and the
\* roundings below are exact for the unions that fit the bounds (at most
\* five items), where every rounding tie is a dyadic fraction.
MaxListLen == 3
MaxDigits == 3

Items == {"sam", "sue", "stew"}

Digits == 0..MaxDigits

Lists == UNION {[1..n -> Items] : n \in 0..MaxListLen}

\* the lists of the example in the docstring of compare_ranks
ExampleList1 == <<"sam", "sue", "stew", "baloo", "baloo">>

ExampleList2 == <<"sue", "sam", "baloo", "new", "baloo">>

\* set(list)
set(l) == {l[i] : i \in 1..Len(l)}

RECURSIVE Pow10(_)
Pow10(d) == IF d = 0 THEN 1 ELSE 10 * Pow10(d - 1)

FloatEq(x, y) == x.num * y.den = y.num * x.den

\* round written as a truncation, int(x * 10**digits) / 10**digits
round_truncating(x, digits) ==
    [num |-> (x.num * Pow10(digits)) \div x.den, den |-> Pow10(digits)]

\* round(x, digits) of a float x >= 0: the nearest multiple of 10**-digits,
\* a tie going to the even one
round(x, digits) ==
    LET scaled == x.num * Pow10(digits)
        q == scaled \div x.den
        r == scaled % x.den
        n == IF 2 * r < x.den THEN q
             ELSE IF 2 * r > x.den THEN q + 1
             ELSE IF q % 2 = 0 THEN q ELSE q + 1
    IN  [num |-> n, den |-> Pow10(digits)]

\* the union taken as the two lists put end to end
jaccard_index_concat(l1, l2, digits) ==
    LET intersection == set(l1) \cap set(l2)
    IN  IF Len(l1) + Len(l2) = 0
        THEN [error |-> "ZeroDivisionError", value |-> NoValue]
        ELSE [error |-> "",
              value |-> round([num |-> Cardinality(intersection),
                               den |-> Len(l1) + Len(l2)], digits)]

\* an empty union answered with 0 instead of the division
jaccard_index_guarded(l1, l2, digits) ==
    LET intersection == set(l1) \cap set(l2)
        union == set(l1) \cup set(l2)
    IN  IF union = {}
        THEN [error |-> "", value |-> [num |-> 0, den |-> Pow10(digits)]]
        ELSE [error |-> "",
              value |-> round([num |-> Cardinality(intersection),
                               den |-> Cardinality(union)], digits)]

\* jaccard_index(list1, list2, digits): float / float raises
\* ZeroDivisionError when the union is empty
jaccard_index(l1, l2, digits) ==
    LET intersection == set(l1) \cap set(l2)
        union == set(l1) \cup set(l2)
    IN  IF Cardinality(union) = 0
        THEN [error |-> "ZeroDivisionError", value |-> NoValue]
        ELSE [error |-> "",
              value |-> round([num |-> Cardinality(intersection),
                               den |-> Cardinality(union)], digits)]

\* digits=3 in the signature of jaccard_index
DefaultDigits == 3

\* len(alphanumerics()): ascii_letters + digits
AlphabetSize == 62

\* alphanumerics(): ascii_letters + digits, one string per character
alphanumerics ==
    <<"a", "b", "c", "d", "e", "f", "g", "h", "i", "j", "k", "l", "m",
      "n", "o", "p", "q", "r", "s", "t", "u", "v", "w", "x", "y", "z",
      "A", "B", "C", "D", "E", "F", "G", "H", "I", "J", "K", "L", "M",
      "N", "O", "P", "Q", "R", "S", "T", "U", "V", "W", "X", "Y", "Z",
      "0", "1", "2", "3", "4", "5", "6", "7", "8", "9">>

MaxSeed == 2

\* the states the process-wide generator can be in before a call
Seeds == 0..MaxSeed

\* self.permutation(pop_size) inside np.random.choice(..., replace=False):
\* a permutation of the positions of the selection that the state s of the
\* generator determines.  The permutations of the Mersenne Twister are stood
\* for by the family i -> offset + i * stride (mod 62) with a stride that has
\* no factor in common with 62, one member per state.
permutation(s) ==
    [i \in 1..AlphabetSize |->
        ((11 * s + (i - 1) * (2 * (s % 15) + 1)) % AlphabetSize) + 1]

\* the draw made with replace=True: no ValueError, symbols may repeat
random_string_replace(length, s) ==
    [error |-> "",
     value |-> [i \in 1..length |-> alphanumerics[((s + i) % 2) + 1]],
     rng   |-> s + 1]

\* random_string(length): np.random.choice(selection, length, replace=False)
\* raises ValueError for a sample larger than the selection, before it draws;
\* otherwise it takes the first entries of a permutation of the selection
\* and leaves the generator in its next state
random_string(length, s) ==
    IF length > AlphabetSize
    THEN [error |-> "ValueError", value |-> NoValue, rng |-> s]
    ELSE [error |-> "",
          value |-> [i \in 1..length |-> alphanumerics[permutation(s)[i]]],
          rng   |-> s + 1]

\* every item encoded with the first symbol drawn
generate_alphanum_dict_shared(list, s) ==
    LET chars == random_string(Len(list), s)
    IN  IF chars.error # "" THEN chars
        ELSE [error |-> "",
              value |-> [item \in set(list) |-> chars.value[1]],
              rng   |-> chars.rng]

\* generate_alphanum_dict(list1) for the entries of list1 in the order of
\* their iteration: {item: chars[i] for i, item in enumerate(list1)}, where
\* a later entry of the same item replaces the earlier one
generate_alphanum_dict(list, s) ==
    LET chars == random_string(Len(list), s)
    IN  IF chars.error # "" THEN chars
        ELSE [error |-> "",
              value |-> [item \in set(list) |->
                           chars.value[CHOOSE i \in 1..Len(list) :
                                          /\ list[i] = item
                                          /\ \A k \in (i + 1)..Len(list) :
                                                list[k] # item]],
              rng   |-> chars.rng]

\* the entries of a set in the order in which it is iterated
RECURSIVE iter(_)
iter(S) ==
    IF S = {} THEN <<>>
    ELSE LET x == CHOOSE y \in S : TRUE
         IN  <<x>> \o iter(S \ {x})

\* rank_as_string(list1, alphanum_index): ''.join of the symbols of the
\* entries, as the sequence of its characters; a missing key raises KeyError
rank_as_string(list, alphanum_index) ==
    IF \E i \in 1..Len(list) : list[i] \notin DOMAIN alphanum_index
    THEN [error |-> "KeyError", value |-> NoValue]
    ELSE [error |-> "",
          value |-> [i \in 1..Len(list) |-> alphanum_index[list[i]]]]

\* compare_ranks(list1, list2), statement by statement, with the generator
\* in state s: jaccard_index may raise; generate_alphanum_dict on the union
\* raises ValueError for more items than symbols; map(...) builds a lazy
\* iterator and encodes nothing; the name unicode in the call of
\* damerau_levenshtein_distance is not defined, so the statement raises
\* NameError before a distance is computed and the return is never reached.
compare_ranks(l1, l2, s) ==
    LET j == jaccard_index(l1, l2, DefaultDigits)
        union == set(l1) \cup set(l2)
        alphanum_dict == generate_alphanum_dict(iter(union), s)
    IN  IF j.error # ""
        THEN [error |-> j.error, value |-> NoValue, rng |-> s]
        ELSE IF alphanum_dict.error # ""
        THEN [error |-> alphanum_dict.error, value |-> NoValue, rng |-> s]
        ELSE [error |-> "NameError", value |-> NoValue,
              rng |-> alphanum_dict.rng]

RankInit ==
    /\ \/ list1 \in Lists /\ list2 \in Lists
       \/ list1 = ExampleList1 /\ list2 = ExampleList2
    /\ call = NoCall
    /\ ret = NoRet
    /\ user = Frame(0, <<>>)
    /\ tdtype = "object"
    /\ SessionsInit
    /\ OthersIdle

JaccardIndex ==
    /\ call = NoCall
    /\ \E digits \in Digits :
         /\ call' = [op |-> "jaccard_index", digits |-> digits]
         /\ ret' = jaccard_index(list1, list2, digits)
    /\ UNCHANGED <<list1, list2, user, tdtype, args, result, error, pc>>
    /\ UNCHANGED <<rng, results, lst, size, procs>>

CompareRanks ==
    /\ call = NoCall
    /\ call' = [op |-> "compare_ranks", digits |-> DefaultDigits]
    /\ LET o == compare_ranks(list1, list2, rng)
       IN  /\ ret' = [error |-> o.error, value |-> o.value]
           /\ rng' = o.rng
    /\ UNCHANGED <<list1, list2, user, tdtype, args, result, error, pc>>
    /\ UNCHANGED <<results, lst, size, procs>>

RankNext == JaccardIndex \/ CompareRanks

SpecRank == RankInit /\ [][RankNext]_vars

\* ------------------------------------------------ the encoding of the lists
\* Callers of generate_alphanum_dict, rank_as_string and compare_ranks: the
\* short lists, a list of as many distinct items as there are symbols, the
\* same list with one more item, and a list of 63 entries, 62 of them distinct.
LongList == alphanumerics

EncodeInit ==
    /\ \/ list1 \in Lists /\ list2 \in Lists
       \/ list1 = LongList /\ list2 \in {<<"b", "a">>, <<"sam">>}
       \/ list1 = LongList \o <<"a">> /\ list2 = <<>>
    /\ rng \in Seeds
    /\ call = NoCall
    /\ ret = NoRet
    /\ user = Frame(0, <<>>)
    /\ tdtype = "object"
    /\ SessionsInit
    /\ results = <<>>
    /\ lst = <<>>
    /\ size = <<>>
    /\ procs = <<>>

\* generate_alphanum_dict on list1 itself, or on the union of the two lists
\* as compare_ranks calls it
GenerateAlphanumDict ==
    /\ call.op = ""
    /\ \E arg \in {list1, iter(set(list1) \cup set(list2))} :
         LET o == generate_alphanum_dict(arg, rng)
         IN  /\ call' = [op |-> "generate_alphanum_dict", list1 |-> arg]
             /\ ret' = [error |-> o.error, value |-> o.value]
             /\ rng' = o.rng
    /\ UNCHANGED <<list1, list2, user, tdtype, args, result, error, pc>>
    /\ UNCHANGED <<results, lst, size, procs>>

\* rank_as_string on list1 and on list2 with the dictionary just built: the
\* two calls that the map of compare_ranks makes once it is consumed
RankAsString ==
    /\ call.op = "generate_alphanum_dict"
    /\ ret.error = ""
    /\ LET s1 == rank_as_string(list1, ret.value)
           s2 == rank_as_string(list2, ret.value)
       IN  /\ call' = [op |-> "rank_as_string", alphanum_index |-> ret.value]
           /\ ret' = IF s1.error # "" THEN s1
                     ELSE IF s2.error # "" THEN s2
                     ELSE [error |-> "", value |-> <<s1.value, s2.value>>]
    /\ UNCHANGED <<list1, list2, user, tdtype, args, result, error, pc>>
    /\ UNCHANGED <<rng, results, lst, size, procs>>

EncodeNext == GenerateAlphanumDict \/ RankAsString \/ CompareRanks

SpecEncode == EncodeInit /\ [][EncodeNext]_vars

\* ------------------------------------------------------ ranking bias
\* The table given to get_bias is the sequence of its rows, each with the
\* group key and a nullable score; a score is a float, the fraction it
\* stands for.  nan is the float 0/0.
MaxResults == 3

GroupKeys == {1, 2}

Scores == {-1, 1, 2, 3}

Float(k) == [num |-> k, den |-> 1]

nan == NoValue

FloatAdd(x, y) == [num |-> x.num * y.den + y.num * x.den, den |-> x.den * y.den]

FloatSub(x, y) == [num |-> x.num * y.den - y.num * x.den, den |-> x.den * y.den]

\* x / n for an integer n > 0
FloatDiv(x, n) == [num |-> x.num, den |-> x.den * n]

\* sum(list) of floats, 0 for the empty list
RECURSIVE sum(_)
sum(s) ==
    IF s = <<>> THEN Float(0)
    ELSE FloatAdd(sum(SubSeq(s, 1, Len(s) - 1)), s[Len(s)])

\* np.mean(list): nan (and a RuntimeWarning) for the empty list
mean(s) == IF s = <<>> THEN nan ELSE FloatDiv(sum(s), Len(s))

\* the sum of the first rank scores divided by till_rank instead of rank
get_bias_till_total(bias_scores, till_rank) ==
    LET m == IF till_rank < Len(bias_scores) THEN till_rank
             ELSE Len(bias_scores)
    IN  [rank \in 1..m |->
            FloatDiv(sum(SubSeq(bias_scores, 1, rank)), till_rank)]

\* get_bias_till(bias_scores, till_rank): the dictionary rank -> mean of
\* the first rank scores, for the ranks up to till_rank
get_bias_till(bias_scores, till_rank) ==
    LET m == IF till_rank < Len(bias_scores) THEN till_rank
             ELSE Len(bias_scores)
    IN  [rank \in 1..m |-> FloatDiv(sum(SubSeq(bias_scores, 1, rank)), rank)]

\* get_weighted_bias(bias_scores): for the empty list total_bias is the
\* integer 0 and 0 / 0 raises ZeroDivisionError
get_weighted_bias(bias_scores) ==
    LET bias_till == get_bias_till(bias_scores, Len(bias_scores))
        total_bias == sum(bias_till)
    IN  IF Len(bias_scores) = 0
        THEN [error |-> "ZeroDivisionError", value |-> NoValue]
        ELSE [error |-> "", value |-> FloatDiv(total_bias, Len(bias_scores))]

\* get_ranking_bias(bias_scores): the left operand is evaluated first
get_ranking_bias(bias_scores) ==
    LET w == get_weighted_bias(bias_scores)
    IN  IF w.error # "" THEN w
        ELSE [error |-> "", value |-> FloatSub(w.value, mean(bias_scores))]

\* [i for i in l if not pd.isnull(i)], on a list of nullable scores
notnull(scores) ==
    LET present(x) == notna(x)
        kept == SelectSeq(scores, present)
    IN  [i \in 1..Len(kept) |-> val(kept[i])]

\* results.groupby(group)[bias_col].apply(list) for one group key: the
\* scores of the rows of the group in the order of the rows
group_list(table, g) ==
    LET ingroup(row) == row.group = g
        rows == SelectSeq(table, ingroup)
    IN  [i \in 1..Len(rows) |-> rows[i].bias]

\* the filter written bias["n"] > 1
keep_group_many(n) == n > 1

\* bias[bias["n"] != 0]
keep_group(n) == n # 0

\* get_bias(results, group, bias_col): one row per group key in ascending
\* order, the groups without a non-null score removed before the metrics are
\* applied; an exception of an applied function ends the call
get_bias(table) ==
    LET keys == Ascending({table[i].group : i \in 1..Len(table)})
        bias(g) == notnull(group_list(table, g))
        kept(g) == keep_group(Len(bias(g)))
        groups == SelectSeq(keys, kept)
        failing == {i \in 1..Len(groups) :
                       get_weighted_bias(bias(groups[i])).error # ""}
    IN  IF failing # {}
        THEN [error |-> "ZeroDivisionError", value |-> NoValue]
        ELSE [error |-> "",
              value |-> [i \in 1..Len(groups) |->
                  [group         |-> groups[i],
                   average_bias  |-> mean(bias(groups[i])),
                   weighted_bias |-> get_weighted_bias(bias(groups[i])).value,
                   ranking_bias  |-> get_ranking_bias(bias(groups[i])).value]]]

ResultRows ==
    [group : GroupKeys, bias : {NaN} \cup {<<Float(k)>> : k \in Scores}]

ResultTables == UNION {[1..n -> ResultRows] : n \in 0..MaxResults}

BiasInit ==
    /\ results \in ResultTables
    /\ rng = 0
    /\ lst = <<>>
    /\ size = <<>>
    /\ procs = <<>>
    /\ RankIdle
    /\ user = Frame(0, <<>>)
    /\ tdtype = "object"
    /\ SessionsInit

GetBias ==
    /\ call.op = ""
    /\ call' = [op |-> "get_bias"]
    /\ ret' = get_bias(results)
    /\ UNCHANGED <<list1, list2, user, tdtype, args, result, error, pc>>
    /\ UNCHANGED <<rng, results, lst, size, procs>>

\* the list of scores of a direct call: the non-null scores of a group of
\* the table, none for a group without such a score
GetWeightedBias ==
    /\ call.op = ""
    /\ \E g \in GroupKeys :
         LET bias_scores == notnull(group_list(results, g))
         IN  /\ call' = [op |-> "get_weighted_bias",
                         bias_scores |-> bias_scores]
             /\ ret' = get_weighted_bias(bias_scores)
    /\ UNCHANGED <<list1, list2, user, tdtype, args, result, error, pc>>
    /\ UNCHANGED <<rng, results, lst, size, procs>>

GetRankingBias ==
    /\ call.op = ""
    /\ \E g \in GroupKeys :
         LET bias_scores == notnull(group_list(results, g))
         IN  /\ call' = [op |-> "get_ranking_bias",
                         bias_scores |-> bias_scores]
             /\ ret' = get_ranking_bias(bias_scores)
    /\ UNCHANGED <<list1, list2, user, tdtype, args, result, error, pc>>
    /\ UNCHANGED <<rng, results, lst, size, procs>>

BiasNext == GetBias \/ GetWeightedBias \/ GetRankingBias

SpecBias == BiasInit /\ [][BiasNext]_vars

\* ------------------------------------------------------------ chunk_list
MaxChunkLen == 4
MaxChunk == 3

ChunkItems == {"a", "b"}

ChunkLists == UNION {[1..n -> ChunkItems] : n \in 0..MaxChunkLen}

\* range(0, stop, step) for step >= 1
range0(stop, step) ==
    [k \in 1..((stop + step - 1) \div step) |-> (k - 1) * step]

\* l[i:j] for 0 <= i <= j
slice(s, i, j) == SubSeq(s, i + 1, IF j < Len(s) THEN j ELSE Len(s))

\* unlist(nested_list): the entries of the chunks put end to end
RECURSIVE unlist(_)
unlist(nested_list) ==
    IF nested_list = <<>> THEN <<>>
    ELSE nested_list[1] \o unlist(Tail(nested_list))

\* the slices written l[i:i + n + 1]
chunk_list_overlap(s, n, as_list) ==
    IF n = 0 THEN [error |-> "ValueError", value |-> NoValue]
    ELSE LET starts == range0(Len(s), n)
         IN  [error |-> "",
              value |-> [k \in 1..Len(starts) |->
                           slice(s, starts[k], starts[k] + n + 1)]]

\* chunk_list(l, n, as_list): the list of the slices, or with as_list=False
\* the generator of the same slices, as the sequence of what it yields;
\* range raises ValueError for a step of zero, in both forms when called
chunk_list(s, n, as_list) ==
    IF n = 0 THEN [error |-> "ValueError", value |-> NoValue]
    ELSE LET starts == range0(Len(s), n)
         IN  IF as_list
             THEN [error |-> "",
                   value |-> [k \in 1..Len(starts) |->
                                slice(s, starts[k], starts[k] + n)]]
             ELSE [error |-> "",
                   value |-> [k \in 1..Len(starts) |->
                                slice(s, starts[k], starts[k] + n)]]

ChunkInit ==
    /\ lst \in ChunkLists
    /\ rng = 0
    /\ results = <<>>
    /\ size = <<>>
    /\ procs = <<>>
    /\ RankIdle
    /\ user = Frame(0, <<>>)
    /\ tdtype = "object"
    /\ SessionsInit

ChunkList ==
    /\ call.op = ""
    /\ \E n \in 0..MaxChunk, as_list \in BOOLEAN :
         /\ call' = [op |-> "chunk_list", n |-> n, as_list |-> as_list]
         /\ ret' = chunk_list(lst, n, as_list)
    /\ UNCHANGED <<list1, list2, user, tdtype, args, result, error, pc>>
    /\ UNCHANGED <<rng, results, lst, size, procs>>

ChunkNext == ChunkList

SpecChunk == ChunkInit /\ [][ChunkNext]_vars

\* ------------------------------------------------------------- humanbytes
\* A byte count is the sequence of its digits to the base 1024, the lowest
\* first; after n divisions by power the size is the count over 1024^n.
MaxBytesLen == 6

\* power = 2**10
power == 1024

\* round(size, 2)
RoundDigits == 2

DigitSamples == {0, 1, power \div 2, power - 1}

ByteCounts ==
    {<<0>>} \cup
    UNION {{d \in [1..n -> DigitSamples] : d[n] # 0} : n \in 1..MaxBytesLen}

\* power_name, the entry of key n at position n + 1
power_name == <<"", "KB", "MB", "GB", "TB">>

\* size > power after n divisions: the count exceeds 1024^(n + 1)
exceeds_power(d, n) ==
    \/ Len(d) > n + 2
    \/ /\ Len(d) = n + 2
       /\ \/ d[n + 2] > 1
          \/ \E i \in 1..(n + 1) : d[i] # 0

\* the number of times the loop divides: while size > power
RECURSIVE divisions(_, _)
divisions(d, n) == IF exceeds_power(d, n) THEN divisions(d, n + 1) ELSE n

\* the digits of c + m * d
RECURSIVE times(_, _, _)
times(d, m, c) ==
    IF d = <<>> THEN (IF c = 0 THEN <<>> ELSE <<c>>)
    ELSE <<(d[1] * m + c) % power>>
            \o times(Tail(d), m, (d[1] * m + c) \div power)

\* the integer with the digits d
RECURSIVE number(_)
number(d) == IF d = <<>> THEN 0 ELSE d[1] + power * number(Tail(d))

\* round(size, 2) for the size left after n divisions, in hundredths: the
\* nearest one, a tie going to the even one
rounded(d, n) ==
    LET p == times(d, Pow10(RoundDigits), 0)
        q == number(SubSeq(p, n + 1, Len(p)))
        top == IF n >= 1 /\ Len(p) >= n THEN p[n] ELSE 0
        low == \E i \in 1..(n - 1) : i <= Len(p) /\ p[i] # 0
        h == IF top > power \div 2 \/ (top = power \div 2 /\ low) THEN q + 1
             ELSE IF top = power \div 2 /\ q % 2 = 1 THEN q + 1
             ELSE q
    IN  [num |-> h, den |-> Pow10(RoundDigits)]

\* humanbytes(size): the rounded size and the unit of the string it returns;
\* power_name[n] raises KeyError for a key that is not in the table
humanbytes(d) ==
    LET n == divisions(d, 0)
    IN  IF n + 1 \notin DOMAIN power_name
        THEN [error |-> "KeyError", value |-> NoValue, n |-> n]
        ELSE [error |-> "",
              value |-> [number |-> rounded(d, n), unit |-> power_name[n + 1]],
              n |-> n]

BytesInit ==
    /\ size \in ByteCounts
    /\ rng = 0
    /\ results = <<>>
    /\ lst = <<>>
    /\ procs = <<>>
    /\ RankIdle
    /\ user = Frame(0, <<>>)
    /\ tdtype = "object"
    /\ SessionsInit

HumanBytes ==
    /\ call.op = ""
    /\ LET o == humanbytes(size)
       IN  /\ call' = [op |-> "humanbytes", n |-> o.n]
           /\ ret' = [error |-> o.error, value |-> o.value]
    /\ UNCHANGED <<list1, list2, user, tdtype, args, result, error, pc>>
    /\ UNCHANGED <<rng, results, lst, size, procs>>

BytesNext == HumanBytes

SpecBytes == BytesInit /\ [][BytesNext]_vars

\* ------------------------------------------- invocations side by side
\* Two invocations of get_sessions on the frames of two users and two of
\* compare_ranks on two pairs of lists, their statements interleaved in any
\* order.  Each invocation has its arguments and its local variables; the
\* generator of np.random is the one object that they share.
MaxParRows == 2

ParFrames ==
    UNION {{Frame(n, ts) : ts \in [1..n -> 0..1]} : n \in 0..MaxParRows}

ParDelims == {0}

ParPairs ==
    {<< <<>>, <<>> >>,
     << <<"sam">>, <<"sue">> >>,
     << <<"sam", "sue">>, <<"sue", "sam">> >>}

SessionsProc(u, d) ==
    [kind |-> "get_sessions", user |-> u, session_delimiter |-> d,
     pc |-> "ready", sorted |-> NoFrame, result |-> NoFrame, error |-> ""]

RanksProc(pair) ==
    [kind |-> "compare_ranks", list1 |-> pair[1], list2 |-> pair[2],
     pc |-> "ready", j |-> NoValue, alphanum_dict |-> <<>>, error |-> ""]

ParInit ==
    /\ \E u1, u2 \in ParFrames, d1, d2 \in ParDelims, a, b \in ParPairs :
          procs = <<SessionsProc(u1, d1), SessionsProc(u2, d2),
                    RanksProc(a), RanksProc(b)>>
    /\ rng \in Seeds
    /\ results = <<>>
    /\ lst = <<>>
    /\ size = <<>>
    /\ RankIdle
    /\ user = Frame(0, <<>>)
    /\ tdtype = "object"
    /\ SessionsInit

\* user.sort_values(tvar) of invocation i
SortValues(i) ==
    /\ procs[i].kind = "get_sessions"
    /\ procs[i].pc = "ready"
    /\ \E sorted \in sort_values(procs[i].user, tvar) :
         procs' = [procs EXCEPT ![i].pc = "sorted", ![i].sorted = sorted]
    /\ UNCHANGED rng

\* the statements of get_sessions after the sort, on the frame of the
\* invocation
Enrich(i) ==
    /\ procs[i].kind = "get_sessions"
    /\ procs[i].pc = "sorted"
    /\ LET o == Outcome(procs[i].sorted, "datetime64[ns]", "",
                        procs[i].session_delimiter)
       IN  procs' = [procs EXCEPT
                        ![i].pc = IF o.error = "" THEN "returned" ELSE "raised",
                        ![i].result = o.frame,
                        ![i].error = o.error]
    /\ UNCHANGED rng

\* j = jaccard_index(list1, list2)
Jaccard(i) ==
    /\ procs[i].kind = "compare_ranks"
    /\ procs[i].pc = "ready"
    /\ LET j == jaccard_index(procs[i].list1, procs[i].list2, DefaultDigits)
       IN  procs' = [procs EXCEPT
                        ![i].pc = IF j.error = "" THEN "union" ELSE "raised",
                        ![i].j = j.value,
                        ![i].error = j.error]
    /\ UNCHANGED rng

\* the union and generate_alphanum_dict(union): the draw reads the state of
\* the generator and leaves it in the next one
Encode(i) ==
    /\ procs[i].kind = "compare_ranks"
    /\ procs[i].pc = "union"
    /\ LET union == set(procs[i].list1) \cup set(procs[i].list2)
           o == generate_alphanum_dict(iter(union), rng)
       IN  /\ procs' = [procs EXCEPT
                           ![i].pc = IF o.error = "" THEN "strings"
                                     ELSE "raised",
                           ![i].alphanum_dict =
                               IF o.error = "" THEN o.value ELSE <<>>,
                           ![i].error = o.error]
           /\ rng' = o.rng

\* the lazy map and the call of damerau_levenshtein_distance on
\* unicode(strings[0]): NameError
Distance(i) ==
    /\ procs[i].kind = "compare_ranks"
    /\ procs[i].pc = "strings"
    /\ procs' = [procs EXCEPT ![i].pc = "raised", ![i].error = "NameError"]
    /\ UNCHANGED rng

ParStep(i) ==
    SortValues(i) \/ Enrich(i) \/ Jaccard(i) \/ Encode(i) \/ Distance(i)

ParNext ==
    /\ \E i \in DOMAIN procs : ParStep(i)
    /\ UNCHANGED <<user, tdtype, args, result, error, pc>>
    /\ UNCHANGED <<list1, list2, call, ret, results, lst, size>>

SpecPar == ParInit /\ [][ParNext]_vars

\* ------------------------------------------------------- reading a result
returned == pc = "returned"

N == nrows(result)

out(c) == result.data[c]

delimiter == args.session_delimiter

\* the gap in seconds between row i of the result and the row before it
gap(i) == out(tvar)[i] - out(tvar)[i - 1]

\* the rows of the result that carry session number s
members(s) == {i \in 1..N : out("session")[i] = s}

\* ------------------------------------------------------------------ claims

\* C1: read in sorted order, session is 0 at the first record and at every
\* later record it is the session of the record before, plus one exactly when
\* time_diff exceeds session_delimiter; the last session number is the number
\* of gaps above the threshold.
C1_SessionCumulative ==
    (returned /\ N >= 1) =>
        /\ out("session")[1] = 0
        /\ \A i \in 2..N :
             out("session")[i] =
                out("session")[i - 1] +
                (IF notna(out("time_diff")[i])
                    /\ val(out("time_diff")[i]) > delimiter THEN 1 ELSE 0)
        /\ out("session")[N] =
             Cardinality({i \in 1..N : /\ notna(out("time_diff")[i])
                                       /\ val(out("time_diff")[i]) > delimiter})

C1_Witness ==
    /\ returned
    /\ N >= 4
    /\ out("session")[N] >= 2
    /\ \E i \in 2..N : out("session")[i] = out("session")[i - 1]

\* C2: between consecutive sorted records a gap equal to session_delimiter
\* keeps the session and a gap strictly greater starts a new one.
C2_StrictBoundary ==
    returned =>
        \A i \in 2..N :
            /\ gap(i) = delimiter => out("session")[i] = out("session")[i - 1]
            /\ gap(i) > delimiter => out("session")[i] # out("session")[i - 1]

C2_Witness ==
    /\ returned
    /\ delimiter >= 1
    /\ \E i \in 2..N : gap(i) = delimiter
    /\ \E i \in 2..N : gap(i) = delimiter + 1

\* C3: every session is a maximal contiguous run of the sorted records: the
\* gaps inside a session are at most session_delimiter, the gap between two
\* sessions is above it, and with no gap above it there is one session.
C3_MaximalRuns ==
    returned =>
        /\ \A i \in 1..N : \A j \in i..N :
             out("session")[i] = out("session")[j] =>
                \A k \in (i + 1)..j :
                    /\ out("session")[k] = out("session")[i]
                    /\ gap(k) <= delimiter
        /\ \A i \in 2..N :
             out("session")[i] # out("session")[i - 1] => gap(i) > delimiter
        /\ (N >= 1 /\ \A i \in 2..N : gap(i) <= delimiter) =>
             \A i \in 1..N : out("session")[i] = 0

C3_Witness ==
    /\ returned
    /\ N >= 4
    /\ Cardinality(members(0)) >= 2
    /\ Cardinality(members(1)) >= 2
    /\ \E i \in 2..N : gap(i) = delimiter /\ delimiter >= 1

\* C4: session_idx is the 1-based position of a record in its session: 1 at
\* the first record of every session, one more than the record before inside
\* a session, and its largest value in a session is the size of the session.
C4_SessionIdx ==
    (returned /\ N >= 1) =>
        /\ out("session_idx")[1] = 1
        /\ \A i \in 2..N :
             out("session_idx")[i] =
                IF out("session")[i] # out("session")[i - 1]
                THEN 1 ELSE out("session_idx")[i - 1] + 1
        /\ \A i \in 1..N :
             LET m == members(out("session")[i])
             IN  \E j \in m :
                    /\ out("session_idx")[j] = Cardinality(m)
                    /\ \A k \in m : out("session_idx")[k] <= Cardinality(m)

C4_Witness ==
    /\ returned
    /\ \E i \in 3..N :
         /\ out("session")[i] # out("session")[i - 1]
         /\ out("session_idx")[i - 1] = 2
         /\ i < N
         /\ out("session_idx")[i + 1] = 2

\* C5: time_elapsed of a record is the time_diff of the next record and is
\* null at the last record; at the last record of a session that another
\* session follows it is the gap to that session, above the threshold.
C5_TimeElapsed ==
    (returned /\ N >= 1) =>
        /\ \A i \in 1..(N - 1) :
             out("time_elapsed")[i] = out("time_diff")[i + 1]
        /\ out("time_elapsed")[N] = NaN
        /\ \A i \in 1..(N - 1) :
             out("session")[i + 1] # out("session")[i] =>
                /\ notna(out("time_elapsed")[i])
                /\ val(out("time_elapsed")[i]) = gap(i + 1)
                /\ val(out("time_elapsed")[i]) > delimiter

C5_Witness ==
    /\ returned
    /\ \E i \in 2..(N - 1) :
         /\ out("session")[i + 1] # out("session")[i]
         /\ out("session")[i - 1] = out("session")[i]
         /\ val(out("time_elapsed")[i]) > delimiter

\* C6: time_diff is null at the first record and at every later record it is
\* the timestamp minus the timestamp before it in sorted order, in seconds,
\* hence never negative; the null of the first record starts no session.
C6_TimeDiff ==
    (returned /\ N >= 1) =>
        /\ out("time_diff")[1] = NaN
        /\ \A i \in 2..N :
             /\ notna(out("time_diff")[i])
             /\ val(out("time_diff")[i]) = gap(i)
             /\ val(out("time_diff")[i]) >= 0
        /\ out("session")[1] = 0
        /\ out("session_idx")[1] = 1

C6_Witness ==
    /\ returned
    /\ N >= 3
    /\ \E i \in 2..N : val(out("time_diff")[i]) > 0
    /\ \E i \in 2..N : val(out("time_diff")[i]) = 0
    /\ \E i \in 2..nrows(user) : user.data[tvar][i] < user.data[tvar][i - 1]

\* C7: the returned records are the input records, each exactly once and with
\* its original fields, in ascending order of the timestamp column.
C7_SortedPermutation ==
    returned =>
        /\ N = nrows(user)
        /\ \A c \in DOMAIN user.data : Len(out(c)) = N
        /\ \A r \in 1..nrows(user) :
             Cardinality({i \in 1..N : out("id")[i] = user.data["id"][r]}) = 1
        /\ \A i \in 1..N : \E r \in 1..nrows(user) :
             \A c \in DOMAIN user.data : out(c)[i] = user.data[c][r]
        /\ \A i \in 2..N : out(tvar)[i - 1] <= out(tvar)[i]

C7_Witness ==
    /\ returned
    /\ N >= 3
    /\ \E i \in 2..N : user.data[tvar][i] < user.data[tvar][i - 1]
    /\ \E i \in 1..N : out("id")[i] # i

\* C8: along the sorted order of a non-empty result the pair
\* (session, session_idx) increases strictly in lexicographic order, so it is
\* unique per record and ordering by it gives the sorted order back.
C8_PairOrder ==
    (returned /\ N >= 1) =>
        \A i \in 1..N : \A j \in (i + 1)..N :
            \/ out("session")[i] < out("session")[j]
            \/ /\ out("session")[i] = out("session")[j]
               /\ out("session_idx")[i] < out("session_idx")[j]

C8_Witness ==
    /\ returned
    /\ N >= 4
    /\ \E i \in 1..N : \E j \in (i + 1)..N :
         /\ out("session")[i] < out("session")[j]
         /\ out("session_idx")[i] > out("session_idx")[j]
    /\ \E i \in 2..N : out("session")[i] = out("session")[i - 1]

\* C9: the sort is stable: records with equal timestamps come out in the
\* relative order they had in the input.
C9_StableSort ==
    returned =>
        \A i \in 1..N : \A j \in (i + 1)..N :
            out(tvar)[i] = out(tvar)[j] => out("id")[i] < out("id")[j]

\* C10: one input record gives one output record with session 0,
\* session_idx 1 and null time_diff and time_elapsed, whatever the threshold.
C10_SingleRecord ==
    (returned /\ nrows(user) = 1) =>
        /\ N = 1
        /\ out("session") = <<0>>
        /\ out("session_idx") = <<1>>
        /\ out("time_diff") = <<NaN>>
        /\ out("time_elapsed") = <<NaN>>
        /\ \A c \in DOMAIN user.data : out(c) = user.data[c]

C10_Witness ==
    /\ returned
    /\ nrows(user) = 1
    /\ N = 1
    /\ delimiter = 0
    /\ out("session") = <<0>>

\* the call has ended, by a return or by an exception
ended == pc # "ready"

\* C11: for an input of zero records get_sessions returns an empty result
\* and raises no error.
C11_ZeroRecords ==
    (ended /\ nrows(user) = 0) =>
        /\ returned
        /\ error = ""
        /\ N = 0

\* C12: with dupe_col given, seq_dupe is false at the first sorted record and
\* at every later record it tells whether the dedupe value equals that of the
\* record before; without dupe_col the result has no seq_dupe column.
C12_SeqDupe ==
    returned =>
        IF args.dupe_col = ""
        THEN "seq_dupe" \notin DOMAIN result.data
        ELSE /\ "seq_dupe" \in DOMAIN result.data
             /\ Len(out("seq_dupe")) = N
             /\ N >= 1 => out("seq_dupe")[1] = FALSE
             /\ \A i \in 2..N :
                  out("seq_dupe")[i] =
                     (out(args.dupe_col)[i] = out(args.dupe_col)[i - 1])

C12_Witness ==
    /\ returned
    /\ args.dupe_col # ""
    /\ N >= 3
    /\ \E i \in 2..N : out("seq_dupe")[i]
    /\ \E i \in 2..(N - 1) : ~out("seq_dupe")[i] /\ out("seq_dupe")[i + 1]

\* C15: get_sessions takes the timestamps as epoch numbers or as datetimes
\* and in both cases computes time_diff as the difference of consecutive
\* timestamps without raising an error.
C15_EpochOrDatetime ==
    (ended /\ tdtype \in {"int64", "datetime64[ns]"}) =>
        /\ returned
        /\ error = ""
        /\ \A i \in 2..N : out("time_diff")[i] = <<gap(i)>>

\* the columns get_sessions adds for the arguments of the call
AddedCols ==
    {"time_diff", "session", "session_idx", "time_elapsed"}
        \cup (IF args.dupe_col = "" THEN {} ELSE {"seq_dupe"})

\* the input has a user column and records of more than one user
mixed ==
    /\ "user_id" \in DOMAIN user.data
    /\ \E i, j \in 1..nrows(user) :
         user.data["user_id"][i] # user.data["user_id"][j]

\* C14 as stated: given records of more than one entity get_sessions fails
\* with an InvalidInputError, and it never returns a session that holds
\* records of different entities.
C14_EntityCheck ==
    /\ (ended /\ mixed) => (pc = "raised" /\ error = "InvalidInputError")
    /\ (returned /\ "user_id" \in DOMAIN user.data) =>
          \A i, j \in 1..N :
             out("session")[i] = out("session")[j] =>
                out("user_id")[i] = out("user_id")[j]

\* C14 as amended: get_sessions makes no entity check: on a frame with a
\* user column it raises no error, whatever the users, and the sessions
\* follow from the timestamps of all the records together.
C14_NoEntityCheck ==
    (ended /\ "user_id" \in DOMAIN user.data) =>
        /\ returned
        /\ error = ""
        /\ \A i \in 2..N :
             out("session")[i] =
                out("session")[i - 1] + (IF gap(i) > delimiter THEN 1 ELSE 0)

C14_Witness ==
    /\ returned
    /\ mixed
    /\ \E i \in 2..N :
         /\ out("user_id")[i] # out("user_id")[i - 1]
         /\ out("session")[i] = out("session")[i - 1]
         /\ gap(i) = delimiter

occurs(x, l) == \E i \in 1..Len(l) : l[i] = x

AllItems == Items \cup set(ExampleList1) \cup set(ExampleList2)

\* the distinct items found in both lists, and in either
InBoth == {x \in AllItems : occurs(x, list1) /\ occurs(x, list2)}

InEither == {x \in AllItems : occurs(x, list1) \/ occurs(x, list2)}

Abs(n) == IF n < 0 THEN 0 - n ELSE n

Reverse(l) == [i \in 1..Len(l) |-> l[Len(l) + 1 - i]]

Min2(a, b) == IF a <= b THEN a ELSE b

\* the last position before i at which l holds x, 0 if there is none
LastBefore(l, i, x) ==
    LET ks == {k \in 1..(i - 1) : l[k] = x}
    IN  IF ks = {} THEN 0 ELSE CHOOSE k \in ks : \A m \in ks : m <= k

\* jellyfish.damerau_levenshtein_distance between the first i entries of a
\* and the first j entries of b: insertion, deletion, substitution and
\* transposition of adjacent entries, each at cost 1
RECURSIVE DLPrefix(_, _, _, _)
DLPrefix(a, b, i, j) ==
    IF i = 0 THEN j
    ELSE IF j = 0 THEN i
    ELSE LET edit == Min2(Min2(DLPrefix(a, b, i - 1, j) + 1,
                               DLPrefix(a, b, i, j - 1) + 1),
                          DLPrefix(a, b, i - 1, j - 1)
                              + (IF a[i] = b[j] THEN 0 ELSE 1))
             k == LastBefore(a, i, b[j])
             l == LastBefore(b, j, a[i])
         IN  IF k = 0 \/ l = 0 THEN edit
             ELSE Min2(edit, DLPrefix(a, b, k - 1, l - 1)
                                 + (i - k - 1) + 1 + (j - l - 1))

damerau_levenshtein_distance(a, b) == DLPrefix(a, b, Len(a), Len(b))

\* C17: for two lists not both empty jaccard_index is the number of distinct
\* items in both lists over the number of distinct items in either, rounded
\* to digits decimal places; how often and in which order the items occur
\* does not change it.
C17_JaccardValue ==
    (call.op = "jaccard_index" /\ (list1 # <<>> \/ list2 # <<>>)) =>
        /\ ret.error = ""
        /\ ret.value.den = Pow10(call.digits)
        /\ 2 * Abs(ret.value.num * Cardinality(InEither)
                   - Cardinality(InBoth) * Pow10(call.digits))
              <= Cardinality(InEither)
        /\ ret = jaccard_index(Reverse(list1) \o list1,
                               list2 \o Reverse(list2), call.digits)

C17_Witness ==
    /\ call.op = "jaccard_index"
    /\ call.digits = DefaultDigits
    /\ Len(list1) > Cardinality(set(list1))
    /\ Cardinality(InBoth) = 2
    /\ Cardinality(InEither) = 3
    /\ ret.value = [num |-> 667, den |-> 1000]

\* C18: jaccard_index fails with the division error exactly when both lists
\* are empty; it then returns no number, and it returns a number without an
\* error whenever a list is non-empty.
C18_DivisionError ==
    call.op = "jaccard_index" =>
        /\ (ret.error = "ZeroDivisionError") <=> (list1 = <<>> /\ list2 = <<>>)
        /\ (ret.error = "") <=> (list1 # <<>> \/ list2 # <<>>)
        /\ (ret.error # "") => ret.value = NoValue
        /\ (ret.error = "") => ret.value.den > 0

C18_Witness ==
    /\ call.op = "jaccard_index"
    /\ list1 = <<>>
    /\ list2 = <<>>
    /\ ret.error = "ZeroDivisionError"

\* C19: jaccard_index is 1.0 for two non-empty lists with the same distinct
\* items, 0.0 for two lists without a common item of which one is non-empty,
\* and always within [0, 1].
C19_JaccardRange ==
    (call.op = "jaccard_index" /\ (list1 # <<>> \/ list2 # <<>>)) =>
        /\ ret.error = ""
        /\ 0 <= ret.value.num
        /\ ret.value.num <= ret.value.den
        /\ (\A x \in AllItems : occurs(x, list1) <=> occurs(x, list2)) =>
              FloatEq(ret.value, [num |-> 1, den |-> 1])
        /\ (\A x \in AllItems : ~(occurs(x, list1) /\ occurs(x, list2))) =>
              FloatEq(ret.value, [num |-> 0, den |-> 1])

C19_Witness ==
    /\ call.op = "jaccard_index"
    /\ Len(list1) = 2
    /\ Len(list2) = 3
    /\ list1[1] # list1[2]
    /\ set(list1) = set(list2)
    /\ list1[1] # list2[1]
    /\ ret.value.num = ret.value.den
    /\ ret.value.den > 0

\* C20: for two lists with a non-empty union of at most 62 items
\* compare_ranks returns the pair of their jaccard_index and of the
\* Damerau-Levenshtein distance between the two lists; for the lists of its
\* docstring it returns (0.6, 3).
C20_CompareRanks ==
    (call.op = "compare_ranks" /\ InEither # {}
        /\ Cardinality(InEither) <= AlphabetSize) =>
        /\ ret.error = ""
        /\ ret.value =
              [j    |-> jaccard_index(list1, list2, DefaultDigits).value,
               dist |-> damerau_levenshtein_distance(list1, list2)]
        /\ (list1 = ExampleList1 /\ list2 = ExampleList2) =>
              /\ FloatEq(ret.value.j, [num |-> 6, den |-> 10])
              /\ ret.value.dist = 3

\* the distinct items of the two lists together
Union == set(list1) \cup set(list2)

\* no two keys of the dictionary d have the same symbol
one_to_one(d) == \A x, y \in DOMAIN d : d[x] = d[y] => x = y

\* C21: compare_ranks fails with the error of the exhausted alphabet when
\* the union of the lists has more than 62 items and not when it has 1 to
\* 62; generate_alphanum_dict fails in the same way for more than 62 items,
\* returns a dictionary for 1 to 62 distinct items, and never gives two
\* items the same symbol.
C21_AlphabetExhausted ==
    /\ call.op = "compare_ranks" =>
          /\ Cardinality(Union) > AlphabetSize => ret.error = "ValueError"
          /\ Cardinality(Union) \in 1..AlphabetSize =>
                ret.error # "ValueError"
    /\ call.op = "generate_alphanum_dict" =>
          /\ Cardinality(set(call.list1)) > AlphabetSize =>
                /\ ret.error = "ValueError"
                /\ ret.value = NoValue
          /\ (/\ Cardinality(set(call.list1)) = Len(call.list1)
              /\ Len(call.list1) \in 1..AlphabetSize) =>
                /\ ret.error = ""
                /\ DOMAIN ret.value = set(call.list1)
          /\ ret.error = "" => one_to_one(ret.value)

C21_Witness ==
    /\ call.op = "compare_ranks"
    /\ Cardinality(Union) = AlphabetSize + 1
    /\ ret.error = "ValueError"

\* C22: a dictionary built by generate_alphanum_dict has exactly the items
\* of the collection as keys and gives them distinct single symbols of the
\* alphabet; in the two strings that rank_as_string makes with it, two
\* positions hold the same symbol exactly when they hold the same item.
C22_Bijective ==
    /\ (call.op = "generate_alphanum_dict" /\ ret.error = "") =>
          /\ DOMAIN ret.value = set(call.list1)
          /\ \A x \in DOMAIN ret.value : ret.value[x] \in set(alphanumerics)
          /\ one_to_one(ret.value)
          /\ Cardinality({ret.value[x] : x \in DOMAIN ret.value})
                = Cardinality(set(call.list1))
    /\ (call.op = "rank_as_string" /\ ret.error = "") =>
          LET both == list1 \o list2
              strings == ret.value[1] \o ret.value[2]
          IN  /\ Len(ret.value[1]) = Len(list1)
              /\ Len(ret.value[2]) = Len(list2)
              /\ \A p, q \in 1..Len(both) :
                    (strings[p] = strings[q]) <=> (both[p] = both[q])

C22_Witness ==
    /\ call.op = "rank_as_string"
    /\ ret.error = ""
    /\ Cardinality(DOMAIN call.alphanum_index) = 3
    /\ Len(list1) = 3
    /\ Len(list2) = 3
    /\ list1[1] = list1[3]
    /\ list1[1] = list2[2]
    /\ ret.value[1][1] = ret.value[2][2]
    /\ ret.value[1][1] # ret.value[1][2]
    /\ ret.value[1][1] # "a"

\* C23: the edit distance that compare_ranks returns is the same for every
\* one-to-one assignment of symbols to the items of the two lists: whatever
\* state the generator is in, it is the distance between the two lists.
C23_DistanceInvariant ==
    (call.op = "compare_ranks" /\ Cardinality(Union) \in 1..AlphabetSize) =>
        /\ ret.error = ""
        /\ \A s \in Seeds :
              LET d == generate_alphanum_dict(iter(Union), s).value
              IN  ret.value.dist =
                     damerau_levenshtein_distance(
                         rank_as_string(list1, d).value,
                         rank_as_string(list2, d).value)

\* C28: compare_ranks gives the same pair for (list1, list2) and for
\* (list2, list1), and for a non-empty list of at most 62 distinct items
\* compared with itself it returns (1.0, 0).
C28_Symmetric ==
    call.op = "compare_ranks" =>
        /\ ret.error = "" =>
              \A s \in Seeds : ret.value = compare_ranks(list2, list1, s).value
        /\ (/\ list1 = list2
             /\ Cardinality(Union) \in 1..AlphabetSize) =>
              /\ ret.error = ""
              /\ FloatEq(ret.value.j, [num |-> 1, den |-> 1])
              /\ ret.value.dist = 0

\* the non-null scores of group g of the table, as integers, in row order
scores_of(g) ==
    LET rows == {i \in 1..Len(results) :
                    results[i].group = g /\ results[i].bias # NaN}
        order == Ascending(rows)
    IN  [k \in 1..Len(order) |-> results[order[k]].bias[1].num]

\* the sum of the first k entries of a sequence of integers
RECURSIVE prefix_sum(_, _)
prefix_sum(xs, k) == IF k = 0 THEN 0 ELSE prefix_sum(xs, k - 1) + xs[k]

\* n! / k, the weight of the k-th running mean over the common denominator
RECURSIVE factorial(_)
factorial(n) == IF n = 0 THEN 1 ELSE n * factorial(n - 1)

\* n * n! times the mean of the running means of xs, for n = Len(xs)
RECURSIVE running_means(_, _)
running_means(xs, k) ==
    IF k = 0 THEN 0
    ELSE running_means(xs, k - 1)
            + prefix_sum(xs, k) * (factorial(Len(xs)) \div k)

\* the row of group g in the table that get_bias returned
row_of(g) ==
    ret.value[CHOOSE i \in 1..Len(ret.value) : ret.value[i].group = g]

has_row(g) == \E i \in 1..Len(ret.value) : ret.value[i].group = g

\* C24: for the n >= 1 non-null scores of a group get_bias reports
\* average_bias = their mean, weighted_bias = (1/n) * the sum over k = 1..n
\* of the mean of the first k scores, and ranking_bias = weighted_bias -
\* average_bias; the scores 1, 2, 3 give 2.0, 1.5 and -0.5.
C24_BiasMetrics ==
    call.op = "get_bias" =>
        /\ ret.error = ""
        /\ \A g \in GroupKeys :
              LET xs == scores_of(g)
                  n == Len(xs)
                  r == row_of(g)
              IN  n >= 1 =>
                    /\ has_row(g)
                    /\ r.average_bias.den > 0
                    /\ r.weighted_bias.den > 0
                    /\ r.ranking_bias.den > 0
                    /\ r.average_bias.num * n
                          = prefix_sum(xs, n) * r.average_bias.den
                    /\ r.weighted_bias.num * n * factorial(n)
                          = running_means(xs, n) * r.weighted_bias.den
                    /\ FloatEq(r.ranking_bias,
                               FloatSub(r.weighted_bias, r.average_bias))
                    /\ xs = <<1, 2, 3>> =>
                          /\ FloatEq(r.average_bias, Float(2))
                          /\ FloatEq(r.weighted_bias, [num |-> 3, den |-> 2])
                          /\ FloatEq(r.ranking_bias, [num |-> -1, den |-> 2])

C24_Witness ==
    /\ call.op = "get_bias"
    /\ scores_of(1) = <<1, 2, 3>>
    /\ has_row(1)
    /\ FloatEq(row_of(1).weighted_bias, [num |-> 3, den |-> 2])
    /\ FloatEq(row_of(1).ranking_bias, [num |-> -1, den |-> 2])

\* the table without its rows of null score
without_nulls ==
    LET present(row) == row.bias # NaN
    IN  SelectSeq(results, present)

\* C25: get_bias removes the null scores of every group before it computes
\* a metric, so its rows are those it returns for the table without the
\* rows of null score, and it returns one row for exactly the groups that
\* have a non-null score: a group of null scores only has no row.
C25_NullsDropped ==
    call.op = "get_bias" =>
        /\ ret.error = ""
        /\ ret = get_bias(without_nulls)
        /\ \A g \in GroupKeys :
              /\ has_row(g) <=> Len(scores_of(g)) >= 1
              /\ Cardinality({i \in 1..Len(ret.value) :
                                 ret.value[i].group = g}) <= 1
        /\ \A i \in 1..Len(ret.value) :
              /\ ret.value[i].average_bias # nan
              /\ ret.value[i].weighted_bias # nan
              /\ ret.value[i].ranking_bias # nan

C25_Witness ==
    /\ call.op = "get_bias"
    /\ Len(results) = 3
    /\ results[1].group = 1
    /\ results[1].bias = NaN
    /\ results[2].group = 2
    /\ results[2].bias = NaN
    /\ results[3].group = 2
    /\ results[3].bias # NaN
    /\ ~has_row(1)
    /\ has_row(2)
    /\ Len(ret.value) = 1

\* C26: over zero non-null scores the bias metrics are null and nothing is
\* divided by zero: get_weighted_bias and get_ranking_bias called on an
\* empty list return null without an error, and no call of get_bias ends in
\* an error.
C26_NoZeroDivision ==
    /\ (/\ call.op \in {"get_weighted_bias", "get_ranking_bias"}
        /\ call.bias_scores = <<>>) =>
          /\ ret.error = ""
          /\ ret.value = nan
    /\ call.op = "get_bias" => ret.error = ""

\* C29: for n >= 1 chunk_list returns consecutive chunks that unlist puts
\* back together into l: every chunk but the last has n entries, the last
\* has 1 to n, none is empty, an empty l gives no chunk, and the generator
\* form yields the same chunks in the same order.
C29_Chunks ==
    (call.op = "chunk_list" /\ call.n >= 1) =>
        /\ ret.error = ""
        /\ unlist(ret.value) = lst
        /\ \A k \in 1..(Len(ret.value) - 1) : Len(ret.value[k]) = call.n
        /\ \A k \in 1..Len(ret.value) :
              /\ Len(ret.value[k]) >= 1
              /\ Len(ret.value[k]) <= call.n
              /\ \A i \in 1..Len(ret.value[k]) :
                    ret.value[k][i] = lst[(k - 1) * call.n + i]
        /\ lst = <<>> => ret.value = <<>>
        /\ ret = chunk_list(lst, call.n, ~call.as_list)

C29_Witness ==
    /\ call.op = "chunk_list"
    /\ ~call.as_list
    /\ call.n = 3
    /\ Len(lst) = 4
    /\ Len(ret.value) = 2
    /\ Len(ret.value[2]) = 1
    /\ ret.value[1][1] # ret.value[1][2]

\* C30: for every byte count humanbytes returns the count divided by 1024
\* until it is at most 1024, with a unit of its table: it divides at most
\* 4 times, so the lookup of the unit never fails.
C30_UnitInTable ==
    call.op = "humanbytes" =>
        /\ call.n <= 4
        /\ ret.error = ""
        /\ ret.value.unit \in {"", "KB", "MB", "GB", "TB"}
        /\ ret.value.unit = power_name[call.n + 1]
        /\ ~exceeds_power(size, call.n)
        /\ call.n >= 1 => exceeds_power(size, call.n - 1)
        /\ ret.value.number.num <= power * Pow10(RoundDigits)

\* the session that row r of the input frame u gets in the frame f
session_of(f, u, r) ==
    f.data["session"][CHOOSE i \in 1..nrows(f) :
                         f.data["id"][i] = u.data["id"][r]]

\* C27: invocations that run interleaved end as they end alone: every
\* invocation of get_sessions returns the session assignment that the call
\* on its frame gives, and every invocation of compare_ranks returns the
\* pair of the Jaccard index and of the edit distance of its two lists,
\* whatever the other invocations did to the generator in between.
C27_Independent ==
    \A i \in DOMAIN procs :
        /\ (procs[i].kind = "get_sessions"
                /\ procs[i].pc \in {"returned", "raised"}) =>
              \A sorted \in sort_values(procs[i].user, tvar) :
                 LET alone == Outcome(sorted, "datetime64[ns]", "",
                                      procs[i].session_delimiter)
                 IN  /\ procs[i].error = alone.error
                     /\ \A r \in 1..nrows(procs[i].user) :
                           session_of(procs[i].result, procs[i].user, r)
                              = session_of(alone.frame, procs[i].user, r)
        /\ (procs[i].kind = "compare_ranks" /\ procs[i].pc = "raised") =>
              /\ procs[i].list1 = <<>>
              /\ procs[i].list2 = <<>>
              /\ procs[i].error = "ZeroDivisionError"

\* the values that C20 names for the docstring example
ExampleValues ==
    /\ FloatEq(jaccard_index(ExampleList1, ExampleList2, DefaultDigits).value,
               [num |-> 6, den |-> 10])
    /\ damerau_levenshtein_distance(ExampleList1, ExampleList2) = 3
    /\ damerau_levenshtein_distance(<<"c", "a">>, <<"a", "b", "c">>) = 2

====
